---- MODULE Spec2Model ----
(***************************************************************************)
(* Model of pkit/core.py, class SystemMonitor: the logger (log), the disk  *)
(* inventory (get_disk_info), the disk health check (check_disk_health)    *)
(* and the metric sampler (monitor_system).                                *)
(*                                                                         *)
(* Text is modelled at the level of tokens: a path, a line of a tool's     *)
(* output or a line of the mount table is a sequence of tokens ("/",       *)
(* "dev", "nvme", ":", ...), and the substring, prefix and split tests of  *)
(* the code are computed on these sequences.  A file is a sequence of      *)
(* lines plus a flag telling whether the last line still lacks its line    *)
(* end; a line is the sequence of its comma separated fields.              *)
(***************************************************************************)
EXTENDS Integers, Sequences, FiniteSets, TLC

\* ------------------------------------------------------------------ bounds
MaxTicks == 2
MaxRuns == 1
MaxClock == 1
MaxCalls == 1
MaxSignals == 1

\* ------------------------------------------------------- text helpers
\* Python's `sub in s` on token sequences.
Contains(s, sub) ==
  \E i \in 0..(Len(s) - Len(sub)) : SubSeq(s, i + 1, i + Len(sub)) = sub

\* Python's s.startswith(p).
StartsWith(s, p) ==
  Len(s) >= Len(p) /\ SubSeq(s, 1, Len(p)) = p

\* Index of the first occurrence of token c in s, 0 when there is none.
FirstIndex(s, c) ==
  IF \E i \in 1..Len(s) : s[i] = c
  THEN CHOOSE i \in 1..Len(s) : s[i] = c /\ \A j \in 1..(i - 1) : s[j] # c
  ELSE 0

\* Python's s.strip(): blanks removed at both ends.
RECURSIVE LStrip(_)
LStrip(s) == IF s # <<>> /\ Head(s) = " " THEN LStrip(Tail(s)) ELSE s

RECURSIVE RStrip(_)
RStrip(s) ==
  IF s # <<>> /\ s[Len(s)] = " " THEN RStrip(SubSeq(s, 1, Len(s) - 1)) ELSE s

Strip(s) == RStrip(LStrip(s))

\* line.split(':', 1)[1].strip(): the text after the first colon.  The
\* result is a record; ok = FALSE stands for the IndexError of [1] on a
\* line that holds no colon.
AfterFirstColon(line) ==
  LET i == FirstIndex(line, ":")
  IN IF i = 0 THEN [ok |-> FALSE, val |-> <<>>]
     ELSE [ok |-> TRUE, val |-> Strip(SubSeq(line, i + 1, Len(line)))]

\* ------------------------------------------------------------- files
EmptyFile == [lines |-> <<>>, open |-> FALSE]

\* open(path, "a"), the writes of `fields` (the first one bare, each later
\* one led by a comma, all on one line), the line end when nl, and the close
\* that flushes them.  Text appended to a file whose last line has no line
\* end continues that line: its first field is glued to the last field
\* already there.
AppendText(f, fields, nl) ==
  IF fields = <<>>
  THEN IF nl /\ ~f.open
       THEN [lines |-> Append(f.lines, <<>>), open |-> FALSE]
       ELSE [lines |-> f.lines, open |-> f.open /\ ~nl]
  ELSE IF f.open
       THEN LET last == f.lines[Len(f.lines)]
                glued == [last EXCEPT ![Len(last)] = @ \o fields[1]]
                         \o Tail(fields)
            IN [lines |-> [f.lines EXCEPT ![Len(f.lines)] = glued],
                open |-> ~nl]
       ELSE [lines |-> Append(f.lines, fields), open |-> ~nl]

\* A header file opened in append mode: what was in the file stays.
WriteHeaderAppendMode(f, header) == AppendText(f, header, TRUE)

\* open(path, "w") of the file f, which truncates it, followed by one write
\* of a whole header line.
WriteHeader(f, header) == [lines |-> <<header>>, open |-> FALSE]

CpuHeader == <<"Timestamp", "User%", "System%", "Idle%">>
FanHeader == <<"Timestamp", "FAN1_RPM", "FAN2_RPM", "FAN3_RPM", "FAN4_RPM",
               "FANA_RPM">>
MemHeader == <<"Timestamp", "Total_Memory_MB", "Used_Memory_MB",
               "Free_Memory_MB", "Shared_Memory_MB", "Buffer_Cache_MB",
               "Available_Memory_MB">>

\* ------------------------------------------------------------- clock
\* strftime("%Y-%m-%d %H:%M:%S") of the clock reading n (in seconds).
TimeStrings == <<"00:00:00", "00:00:01", "00:00:02", "00:00:03", "00:00:04",
                 "00:00:05", "00:00:06", "00:00:07">>
Strftime(n) == TimeStrings[n + 1]

\* The local variable timestamp before its first assignment.
NoStamp == ""

VARIABLES
  pc,        \* position of the sampler (monitor_system)
  run,       \* number of sampler runs started
  interval,  \* the interval argument of the current run
  ticks,     \* loop iterations started in the current run
  ts,        \* the timestamp captured by the current iteration
  now,       \* the wall clock, in seconds
  cpu,       \* cpu.csv
  mem,       \* mem.csv
  fan,       \* fan.csv
  log,       \* servertest.log, a sequence of entries
  fanDone,   \* iterations of the current run whose fan step ran to its end
  fanOk,     \* iterations of the current run whose fan capture succeeded
  signals,   \* stop signals delivered to the current run
  sigAt,     \* position at which the last stop signal was delivered
  lastFan,   \* what the fan tool did in the last fan step
  world,     \* what the disk operations find: file system, mount table, tools
  calls,     \* number of disk operations invoked
  call       \* the last disk operation: its arguments and its outcome

vars == <<pc, run, interval, ticks, ts, now, cpu, mem, fan, log, fanDone,
          fanOk, signals, sigAt, lastFan, world, calls, call>>

samplerVars == <<pc, run, interval, ticks, ts, cpu, mem, fan, fanDone,
                 fanOk, signals, sigAt, lastFan>>

\* ------------------------------------------------------------- logger
\* log(level, message): one entry "[timestamp] [level] message" appended
\* to the log file.
LogEntry(level, message) ==
  [time |-> Strftime(now), level |-> level, message |-> message]

\* The log file opened with "w": the entry replaces what the file held.
LoggedTruncating(l, level, message) == <<LogEntry(level, message)>>

\* open(log_file, "a") and one write of the entry.
Logged(l, level, message) == Append(l, LogEntry(level, message))

\* ------------------------------------------------- fan tool output
\* The output of `ipmitool sdr type fan`: a sequence of lines, each line the
\* sequence of its '|' separated columns, each column its sequence of words.
FanChannels == <<"FAN1", "FAN2", "FAN3", "FAN4", "FANA">>

\* Words that contain the text FAN, and words that contain the text RPM.
FanWords == {"FAN1", "FAN2", "FAN3", "FAN4", "FANA", "FAN5"}
RpmWords == {"RPM"}

HasWord(line, words) ==
  \E c \in 1..Len(line) : \E w \in 1..Len(line[c]) : line[c][w] \in words

\* 'FAN' in line and 'RPM' in line
FanLine(line) == HasWord(line, FanWords) /\ HasWord(line, RpmWords)

\* line.split('|')[1].strip().split()[0] raises IndexError on a line with
\* no '|' and on a line whose second column is blank.
FanLineParses(line) == Len(line) >= 2 /\ line[2] # <<>>

FanParseOk(out) ==
  \A i \in 1..Len(out) : FanLine(out[i]) => FanLineParses(out[i])

\* fans.get(ch, '0') after the loop over the lines: the last line named ch
\* decides.
FansGet(out, ch) ==
  LET idx == {i \in 1..Len(out) : FanLine(out[i]) /\ out[i][1] = <<ch>>}
  IN IF idx = {} THEN "0"
     ELSE out[CHOOSE i \in idx : \A j \in idx : j <= i][2][1]

\* The fan row with a timestamp taken when the row is written.
FanRowFieldsFreshStamp(t, out) ==
  <<Strftime(now)>>
  \o [i \in 1..Len(FanChannels) |-> FansGet(out, FanChannels[i])]

\* The texts the fan row is written in: the timestamp, then one ",value"
\* per channel of the fixed list.
FanRowFields(t, out) ==
  <<t>> \o [i \in 1..Len(FanChannels) |-> FansGet(out, FanChannels[i])]

OutSomeFans ==
  << << <<"FAN1">>, <<"41h">>, <<"ok">>, <<"29.1">>, <<"5400", "RPM">> >>,
     << <<"FAN5">>, <<"45h">>, <<"ok">>, <<"29.5">>, <<"5600", "RPM">> >>,
     << <<"FAN3">>, <<"43h">>, <<"ns">>, <<"29.3">>, <<"No", "Reading">> >> >>
OutNoFans == <<>>
OutNoBar == << << <<"FAN1", "1200", "RPM">> >> >>
OutBlankColumn == << << <<"FAN1">>, <<>>, <<"1200", "RPM">> >> >>

FanOutputs == {OutSomeFans, OutNoFans, OutNoBar, OutBlankColumn}

\* What subprocess.check_output(['ipmitool', ...]) can do.
FanToolResults ==
  {[kind |-> "missing", out |-> <<>>], [kind |-> "nonzero", out |-> <<>>]}
  \cup {[kind |-> "ok", out |-> o] : o \in FanOutputs}

\* No fan step in this iteration yet.
NoFanYet == [kind |-> "none", out |-> <<>>]

FanCaptureOk(r) == r.kind = "ok" /\ FanParseOk(r.out)

\* ------------------------------------------------------------ sampler
Intervals == {-1, 0}

WarningFan == <<"Failed to get fan information">>
InfoStopped == <<"Monitoring stopped">>

CpuRow(t) == <<t, "user", "system", "idle">>
MemRow(t) ==
  <<t, "total", "used", "free", "shared", "buffers+cached", "available">>

\* monitor_system is entered: os.makedirs(output_dir, exist_ok=True).
StartSampler ==
  /\ pc \in {"idle", "stopped", "crashed"}
  /\ run < MaxRuns
  /\ \E i \in Intervals : interval' = i
  /\ pc' = "headers"
  /\ run' = run + 1
  /\ ticks' = 0
  /\ fanDone' = 0
  /\ fanOk' = 0
  /\ signals' = 0
  /\ sigAt' = "none"
  /\ ts' = NoStamp
  /\ lastFan' = NoFanYet
  /\ UNCHANGED <<now, cpu, mem, fan, log, world, calls, call>>

\* The three header files, each opened with "w" and written in one line.
WriteHeaders ==
  /\ pc = "headers"
  /\ cpu' = WriteHeader(cpu, CpuHeader)
  /\ fan' = WriteHeader(fan, FanHeader)
  /\ mem' = WriteHeader(mem, MemHeader)
  /\ pc' = "tick"
  /\ UNCHANGED <<run, interval, ticks, ts, now, log, fanDone, fanOk, signals,
                 sigAt, lastFan, world, calls, call>>

\* A stop signal (KeyboardInterrupt) raised while the headers are written,
\* after k of them: these lines are outside the try, the exception leaves
\* monitor_system.
SignalInHeaders ==
  /\ pc = "headers"
  /\ signals < MaxSignals
  /\ \E k \in 0..3 :
       /\ cpu' = IF k >= 1 THEN WriteHeader(cpu, CpuHeader) ELSE cpu
       /\ fan' = IF k >= 2 THEN WriteHeader(fan, FanHeader) ELSE fan
       /\ mem' = IF k >= 3 THEN WriteHeader(mem, MemHeader) ELSE mem
  /\ pc' = "crashed"
  /\ signals' = signals + 1
  /\ sigAt' = "headers"
  /\ UNCHANGED <<run, interval, ticks, ts, now, log, fanDone, fanOk, lastFan,
                 world,
                 calls, call>>

\* Top of the loop: the timestamp of this iteration.
TickStart ==
  /\ pc = "tick"
  /\ ticks < MaxTicks
  /\ ts' = Strftime(now)
  /\ ticks' = ticks + 1
  /\ lastFan' = NoFanYet
  /\ pc' = "cpu"
  /\ UNCHANGED <<run, interval, now, cpu, mem, fan, log, fanDone, fanOk,
                 signals,
                 sigAt, world, calls, call>>

\* The CPU step with its row held back instead of written.
CpuStepRowHeld ==
  /\ pc = "cpu"
  /\ pc' = "mem"
  /\ UNCHANGED <<run, interval, ticks, ts, now, cpu, mem, fan, log, fanDone,
                 fanOk, signals, sigAt, lastFan, world, calls, call>>

\* psutil.cpu_times_percent() and the CPU row.
CpuStep ==
  /\ pc = "cpu"
  /\ cpu' = AppendText(cpu, CpuRow(ts), TRUE)
  /\ pc' = "mem"
  /\ UNCHANGED <<run, interval, ticks, ts, now, mem, fan, log, fanDone, fanOk,
                 signals, sigAt, lastFan, world, calls, call>>

\* psutil.virtual_memory() and the memory row.
MemStep ==
  /\ pc = "mem"
  /\ mem' = AppendText(mem, MemRow(ts), TRUE)
  /\ pc' = "fan"
  /\ UNCHANGED <<run, interval, ticks, ts, now, cpu, fan, log, fanDone, fanOk,
                 signals, sigAt, lastFan, world, calls, call>>

\* A capture fault taken the way the fan step takes its faults: a WARNING,
\* then the next step of the iteration.
CaptureFaultAbsorbed ==
  /\ pc \in {"cpu", "mem"}
  /\ pc' = IF pc = "cpu" THEN "mem" ELSE "fan"
  /\ log' = Logged(log, "WARNING", <<"Failed to get system information">>)
  /\ UNCHANGED <<run, interval, ticks, ts, now, cpu, mem, fan, fanDone,
                 fanOk, signals, sigAt, lastFan, world, calls, call>>

\* A fault of the CPU or memory capture (or of the write of its row): no
\* handler of the loop takes it, the exception leaves monitor_system.
CaptureFault ==
  /\ pc \in {"cpu", "mem"}
  /\ pc' = "crashed"
  /\ UNCHANGED <<run, interval, ticks, ts, now, cpu, mem, fan, log, fanDone,
                 fanOk, signals, sigAt, lastFan, world, calls, call>>

\* The fan step with a row of zeros written for a failed capture.
FanStepZeroFilled ==
  /\ pc = "fan"
  /\ \E r \in FanToolResults :
       /\ lastFan' = r
       /\ IF FanCaptureOk(r)
          THEN /\ fan' = AppendText(fan, FanRowFields(ts, r.out), TRUE)
               /\ log' = log
               /\ fanOk' = fanOk + 1
          ELSE /\ fan' = AppendText(fan, FanRowFields(ts, <<>>), TRUE)
               /\ log' = Logged(log, "WARNING", WarningFan)
               /\ fanOk' = fanOk
  /\ fanDone' = fanDone + 1
  /\ pc' = "sleep"
  /\ UNCHANGED <<run, interval, ticks, ts, now, cpu, mem, signals, sigAt,
                 world, calls, call>>

\* The fan step: the tool, the parse of its output, the fan row; any
\* exception of the step is taken by the bare except, which logs a WARNING.
FanStep ==
  /\ pc = "fan"
  /\ \E r \in FanToolResults :
       /\ lastFan' = r
       /\ IF FanCaptureOk(r)
          THEN /\ fan' = AppendText(fan, FanRowFields(ts, r.out), TRUE)
               /\ log' = log
               /\ fanOk' = fanOk + 1
          ELSE /\ fan' = fan
               /\ log' = Logged(log, "WARNING", WarningFan)
               /\ fanOk' = fanOk
  /\ fanDone' = fanDone + 1
  /\ pc' = "sleep"
  /\ UNCHANGED <<run, interval, ticks, ts, now, cpu, mem, signals, sigAt,
                 world, calls, call>>

\* What the tool had returned in a fan step that a stop signal then
\* interrupts during the write of the row.
InterruptedResults == {[kind |-> "ok", out |-> OutSomeFans]}

\* A stop signal raised inside the fan step.  k = 0: before fan.csv is
\* opened; k = 1..6: after the first k writes of the row (the timestamp and
\* k - 1 values), which the close of the with block flushes; k = 7: after
\* the line end.  The bare except takes the KeyboardInterrupt like any
\* other exception: WARNING, then the sleep.
SignalInFan ==
  /\ pc = "fan"
  /\ signals < MaxSignals
  /\ \E k \in 0..(Len(FanChannels) + 2) :
       IF k = 0
       THEN fan' = fan /\ fanOk' = fanOk
       ELSE \E r \in InterruptedResults :
              /\ FanCaptureOk(r)
              /\ fanOk' = fanOk + 1
              /\ fan' = AppendText(fan,
                          SubSeq(FanRowFields(ts, r.out), 1,
                                 IF k > Len(FanChannels) + 1
                                 THEN Len(FanChannels) + 1 ELSE k),
                          k = Len(FanChannels) + 2)
  /\ lastFan' = [kind |-> "signal", out |-> <<>>]
  /\ log' = Logged(log, "WARNING", WarningFan)
  /\ signals' = signals + 1
  /\ sigAt' = "fan"
  /\ pc' = "sleep"
  /\ UNCHANGED <<run, interval, ticks, ts, now, cpu, mem, fanDone, world,
                 calls, call>>

\* time.sleep(interval) returns; a negative interval raises ValueError,
\* which leaves monitor_system.
Sleep ==
  /\ pc = "sleep"
  /\ IF interval < 0
     THEN /\ pc' = "crashed"
          /\ now' = now
     ELSE /\ now + interval <= MaxClock
          /\ now' = now + interval
          /\ pc' = "tick"
  /\ UNCHANGED <<run, interval, ticks, ts, cpu, mem, fan, log, fanDone, fanOk,
                 signals, sigAt, lastFan, world, calls, call>>

\* The except KeyboardInterrupt placed inside the while loop: the handler
\* logs and the loop goes on.
SignalInLoopContinues ==
  /\ pc \in {"tick", "cpu", "mem", "sleep"}
  /\ signals < MaxSignals
  /\ log' = Logged(log, "INFO", InfoStopped)
  /\ signals' = signals + 1
  /\ sigAt' = pc
  /\ pc' = "tick"
  /\ UNCHANGED <<run, interval, ticks, ts, now, cpu, mem, fan, fanDone, fanOk,
                 lastFan, world, calls, call>>

\* A stop signal raised in the loop outside the fan step (before the
\* timestamp, in the CPU step, in the memory step, in the sleep): the
\* except KeyboardInterrupt of the loop logs INFO and monitor_system returns.
SignalInLoop ==
  /\ pc \in {"tick", "cpu", "mem", "sleep"}
  /\ signals < MaxSignals
  /\ log' = Logged(log, "INFO", InfoStopped)
  /\ signals' = signals + 1
  /\ sigAt' = pc
  /\ pc' = "stopped"
  /\ UNCHANGED <<run, interval, ticks, ts, now, cpu, mem, fan, fanDone, fanOk,
                 lastFan, world, calls, call>>

\* Time passes.
ClockTick ==
  /\ now < MaxClock
  /\ now' = now + 1
  /\ UNCHANGED <<samplerVars, log, world, calls, call>>

\* datetime.now() reads the local wall clock, which is not monotonic: its
\* reading goes back when the clock is set back and when daylight saving
\* time ends.
ClockSetBack ==
  /\ now > 0
  /\ now' = now - 1
  /\ UNCHANGED <<samplerVars, log, world, calls, call>>

\* --------------------------------------------------------- devices
DevSda == <<"/", "dev", "/", "sda">>
DevNvme == <<"/", "dev", "/", "nvme", "0n1">>
MntNvme == <<"/", "mnt", "/", "nvme", "_backup">>

Devices == {DevSda, DevNvme, MntNvme}

\* What an external tool invocation can do: the binary is missing
\* (FileNotFoundError), it exits with a non-zero status
\* (CalledProcessError), or it exits with status zero and this output.
ToolResults(outputs) ==
  {[kind |-> "missing", out |-> <<>>], [kind |-> "nonzero", out |-> <<>>]}
  \cup {[kind |-> "ok", out |-> o] : o \in outputs}

\* ----------------------------------------------------- get_disk_info
GiB == 1073741824

None == [kind |-> "none"]
Raised(exc) == [kind |-> "raise", exc |-> exc]
DeviceInfo(size, mounted, model, device) ==
  [kind |-> "info", size |-> size, mounted |-> mounted, model |-> model,
   device |-> device]

\* The os.path module has the functions exists, isfile, isdir, islink and
\* ismount; it has no function isblock, and evaluating os.path.isblock
\* raises AttributeError.
OsPathHasIsBlock == FALSE

ModelMarker == <<"Model", " ", "Number", ":">>

\* Words that begin with the text mn.
MnWords == {"mn", "mntmt"}

HasModelMarker(line) == Contains(line, ModelMarker)
IsMnLine(line) == line # <<>> /\ line[1] \in MnWords

\* Index of the first line of the hdparm output that holds the marker
\* (the for loop with its break), 0 when there is none.
FirstModelLine(out) ==
  IF \E i \in 1..Len(out) : HasModelMarker(out[i])
  THEN CHOOSE i \in 1..Len(out) :
         HasModelMarker(out[i]) /\ \A j \in 1..(i - 1) : ~HasModelMarker(out[j])
  ELSE 0

\* Index of the first line of the nvme output that starts with mn, 0 when
\* there is none.
FirstMnLine(out) ==
  IF \E i \in 1..Len(out) : IsMnLine(out[i])
  THEN CHOOSE i \in 1..Len(out) :
         IsMnLine(out[i]) /\ \A j \in 1..(i - 1) : ~IsMnLine(out[j])
  ELSE 0

\* The inner try of the fallback: `nvme id-ctrl`; every exception (a failed
\* invocation, the IndexError of a mn line without colon) leaves model "".
NvmeModel(r) ==
  IF r.kind # "ok" THEN <<>>
  ELSE LET i == FirstMnLine(r.out)
       IN IF i = 0 THEN <<>>
          ELSE IF AfterFirstColon(r.out[i]).ok
               THEN AfterFirstColon(r.out[i]).val
               ELSE <<>>

\* The model resolution: `hdparm -I` first; the except branch is taken only
\* when that invocation raises, and only a path that starts with /dev/nvme
\* then tries `nvme id-ctrl`.  The result names the tools invoked.
ResolveModel(device, hd, nv) ==
  IF hd.kind = "ok"
  THEN LET i == FirstModelLine(hd.out)
       IN [model |-> IF i = 0 THEN <<>> ELSE AfterFirstColon(hd.out[i]).val,
           invoked |-> <<"hdparm">>]
  ELSE IF StartsWith(device, <<"/", "dev", "/", "nvme">>)
       THEN [model |-> NvmeModel(nv), invoked |-> <<"hdparm", "nvme id-ctrl">>]
       ELSE [model |-> <<>>, invoked |-> <<"hdparm">>]

\* any(device in line for line in f)
Mounted(device, table) ==
  \E i \in 1..Len(table) : Contains(table[i], device)

\* The body of the outer try: a fault of os.stat or of the read of
\* /proc/mounts (env.fault) is taken by the outer except and gives None.
DiskInfoBody(device, env) ==
  IF env.fault \in {"stat", "mounts"}
  THEN [ret |-> None, invoked |-> <<>>]
  ELSE LET m == ResolveModel(device, env.hdparm, env.nvme)
       IN [ret |-> DeviceInfo(env.size \div GiB, Mounted(device, env.mounts),
                              m.model, device),
           invoked |-> m.invoked]

\* get_disk_info(device) in the environment env, where env.path tells what
\* the path is: absent, a regular file, a block special file.  The test of
\* line 25 is outside the try.
GetDiskInfo(device, env) ==
  IF env.path = "absent" THEN [ret |-> None, invoked |-> <<>>]
  ELSE IF ~OsPathHasIsBlock
       THEN [ret |-> Raised("AttributeError"), invoked |-> <<>>]
       ELSE IF env.path # "block" THEN [ret |-> None, invoked |-> <<>>]
            ELSE DiskInfoBody(device, env)

Sizes == {GiB - 1, GiB}

LineSda1 == <<"/", "dev", "/", "sda", "1", " ", "/", " ", "ext4">>
LineNvme == <<"/", "dev", "/", "nvme", "0n1", " ", "/", "data", " ", "xfs">>
MountTables == {<<>>, <<LineSda1>>, <<LineNvme>>}

HdparmOutputs ==
  { << <<"/", "dev", "/", "sda", ":">>,
       <<" ", "Model", " ", "Number", ":", " ", "ST1000", " ">>,
       <<" ", "Model", " ", "Number", ":", " ", "other">> >>,
    << <<"ATA", ":", " ", "Model", " ", "Number", ":", " ", "ST1000">> >>,
    << <<" ", "Serial", " ", "Number", ":", " ", "Z1">> >> }

NvmeOutputs ==
  { << <<"vid", " ", ":", " ", "0x144d">>,
       <<"mn", " ", ":", " ", "Samsung", " ", "SSD", " ">>,
       <<"mntmt", " ", ":", " ", "0">> >>,
    << <<"mn", " ", "Samsung">> >> }

DiskEnvs ==
  [path : {"absent", "regular", "block"}, fault : {"none", "stat", "mounts"},
   size : Sizes, mounts : MountTables,
   hdparm : ToolResults(HdparmOutputs), nvme : ToolResults(NvmeOutputs)]

NoCall == [op |-> "none"]

\* The environment of a host with one disk /dev/sda and no NVMe tooling.
PlainWorld ==
  [path |-> "block", fault |-> "none", size |-> GiB,
   mounts |-> <<LineSda1>>,
   hdparm |-> [kind |-> "nonzero", out |-> <<>>],
   nvme |-> [kind |-> "missing", out |-> <<>>]]

\* get_disk_info with a log entry for the device it looks at.
GetDiskInfoCallLogged ==
  /\ calls < MaxCalls
  /\ \E d \in Devices :
       /\ call' = [op |-> "get_disk_info", device |-> d,
                   ret |-> GetDiskInfo(d, world).ret,
                   invoked |-> GetDiskInfo(d, world).invoked]
       /\ log' = Logged(log, "INFO", <<"Reading ">> \o d)
  /\ calls' = calls + 1
  /\ UNCHANGED <<samplerVars, now, world>>

GetDiskInfoCall ==
  /\ calls < MaxCalls
  /\ \E d \in Devices :
       call' = [op |-> "get_disk_info", device |-> d,
                ret |-> GetDiskInfo(d, world).ret,
                invoked |-> GetDiskInfo(d, world).invoked]
  /\ calls' = calls + 1
  /\ UNCHANGED <<samplerVars, now, log, world>>

\* ------------------------------------------------- check_disk_health
\* The test of get_disk_info (a path under /dev/nvme) used for the dispatch.
HealthToolByPrefix(device) ==
  IF StartsWith(device, <<"/", "dev", "/", "nvme">>)
  THEN "nvme smart-log" ELSE "smartctl -H"

HealthTool(device) ==
  IF Contains(device, <<"nvme">>) THEN "nvme smart-log" ELSE "smartctl -H"

ExitStatuses == {0, 1, 2}

\* What subprocess.check_call of the selected tool can do: the binary is
\* missing (FileNotFoundError, not caught), or the tool exits with a status.
HealthToolResults ==
  {[kind |-> "missing", status |-> -1]}
  \cup {[kind |-> "exit", status |-> st] : st \in ExitStatuses}

CheckingHealth(device) == <<"Checking health of ">> \o device
FailedHealth(device) == <<"Failed to get health status for ">> \o device

Bool(b) == [kind |-> "bool", val |-> b]

\* subprocess.call in place of check_call: the exit status is not looked at.
CheckDiskHealthStatusIgnored(device, r, l) ==
  LET l1 == Logged(l, "INFO", CheckingHealth(device))
  IN IF r.kind = "missing"
     THEN [ret |-> Raised("FileNotFoundError"), log |-> l1,
           invoked |-> <<HealthTool(device)>>]
     ELSE [ret |-> Bool(TRUE), log |-> l1,
           invoked |-> <<HealthTool(device)>>]

\* check_disk_health(device) where the invocation of the selected tool does
\* r: the return value (or the exception) and the log afterwards.
CheckDiskHealth(device, r, l) ==
  LET l1 == Logged(l, "INFO", CheckingHealth(device))
  IN IF r.kind = "missing"
     THEN [ret |-> Raised("FileNotFoundError"), log |-> l1,
           invoked |-> <<HealthTool(device)>>]
     ELSE IF r.status = 0
          THEN [ret |-> Bool(TRUE), log |-> l1,
                invoked |-> <<HealthTool(device)>>]
          ELSE [ret |-> Bool(FALSE),
                log |-> Logged(l1, "ERROR", FailedHealth(device)),
                invoked |-> <<HealthTool(device)>>]

CheckDiskHealthCall ==
  /\ calls < MaxCalls
  /\ \E d \in Devices, r \in HealthToolResults :
       /\ call' = [op |-> "check_disk_health", device |-> d,
                   result |-> r,
                   invoked |-> CheckDiskHealth(d, r, log).invoked,
                   ret |-> CheckDiskHealth(d, r, log).ret]
       /\ log' = CheckDiskHealth(d, r, log).log
  /\ calls' = calls + 1
  /\ UNCHANGED <<samplerVars, now, world>>

\* ---------------------------------------------------- specifications
InitProgram ==
  /\ pc = "idle"
  /\ run = 0
  /\ interval = 0
  /\ ticks = 0
  /\ ts = NoStamp
  /\ now = 0
  /\ fanDone = 0
  /\ fanOk = 0
  /\ signals = 0
  /\ sigAt = "none"
  /\ lastFan = NoFanYet
  /\ calls = 0
  /\ call = NoCall

NoFiles == cpu = EmptyFile /\ mem = EmptyFile /\ fan = EmptyFile

NoLog == log = <<>>

\* The sinks as an earlier run of the sampler in the same output directory
\* left them.
OldFiles ==
  /\ cpu = [lines |-> <<CpuHeader, CpuRow(Strftime(0))>>, open |-> FALSE]
  /\ mem = [lines |-> <<MemHeader, MemRow(Strftime(0))>>, open |-> FALSE]
  /\ fan = [lines |-> <<FanHeader, FanRowFields(Strftime(0), OutSomeFans)>>,
            open |-> FALSE]

\* The log as that earlier run left it when it was stopped.
OldLog ==
  log = <<[time |-> Strftime(0), level |-> "INFO", message |-> InfoStopped]>>

\* The sampler starts in an output directory that is empty or holds the
\* files of an earlier run.
Init == InitProgram /\ world = PlainWorld /\ NoLog /\ (NoFiles \/ OldFiles)

\* The disk operations are checked in every environment of DiskEnvs.
DiskInit == InitProgram /\ world \in DiskEnvs /\ NoLog /\ NoFiles

\* The whole program in a directory that holds the sinks and the log of an
\* earlier run.
SystemInit == InitProgram /\ world = PlainWorld /\ OldFiles /\ OldLog

\* The sampler alone.
SamplerNext ==
  \/ StartSampler
  \/ WriteHeaders
  \/ SignalInHeaders
  \/ TickStart
  \/ CpuStep
  \/ MemStep
  \/ CaptureFault
  \/ FanStep
  \/ SignalInFan
  \/ Sleep
  \/ SignalInLoop
  \/ ClockTick

SamplerSpec == Init /\ [][SamplerNext]_vars

\* The sampler alone, with the wall clock as datetime.now() reads it.
WallClockNext ==
  \/ SamplerNext
  \/ ClockSetBack

WallClockSpec == Init /\ [][WallClockNext]_vars

\* The two disk operations alone.
DiskNext ==
  \/ GetDiskInfoCall
  \/ CheckDiskHealthCall
  \/ ClockTick

DiskSpec == DiskInit /\ [][DiskNext]_vars

\* The sampler with the disk operations called between any two of its
\* steps.  The clock stands still, the stop signal arrives at the loop
\* positions where it ends the run, and the captures of CPU and memory do
\* not fault; SamplerSpec has the steps left out here.
Next ==
  \/ StartSampler
  \/ WriteHeaders
  \/ TickStart
  \/ CpuStep
  \/ MemStep
  \/ FanStep
  \/ Sleep
  \/ SignalInLoop
  \/ GetDiskInfoCall
  \/ CheckDiskHealthCall

Spec == SystemInit /\ [][Next]_vars

\* ------------------------------------------------------------ claims
LoopPositions == {"tick", "cpu", "mem", "fan", "sleep"}

\* Number of data rows of a sink whose header has been written.
DataRows(f) == Len(f.lines) - 1

HeaderCount(f, header) ==
  Cardinality({i \in 1..Len(f.lines) : f.lines[i] = header})

\* The headers of the current run have been written.
HeadersWritten ==
  \/ pc \in LoopPositions \cup {"stopped"}
  \/ pc = "crashed" /\ sigAt # "headers"

HeaderFirstAndOnce(f, header) ==
  /\ Len(f.lines) >= 1
  /\ f.lines[1] = header
  /\ \A i \in 2..Len(f.lines) : f.lines[i] # header

ErrorCount(l) == Cardinality({i \in 1..Len(l) : l[i].level = "ERROR"})

\* C1: get_disk_info returns a DeviceInfo or None for every device and every
\* fault of its steps; no exception reaches the caller.
C1_NeverRaises ==
  call.op = "get_disk_info" => call.ret.kind \in {"none", "info"}

\* C2: for a path that does not exist, and for a path that exists but is
\* not a block special file, get_disk_info returns None.
C2_NonBlockGivesNone ==
  (call.op = "get_disk_info" /\ world.path \in {"absent", "regular"})
    => call.ret = None

\* C3: in every sampler run each sink holds its header exactly once, as its
\* first line, before every data row; no iteration writes a header again.
C3_HeaderOnce ==
  /\ HeaderCount(cpu, CpuHeader) <= 1
  /\ HeaderCount(mem, MemHeader) <= 1
  /\ HeaderCount(fan, FanHeader) <= 1
  /\ HeadersWritten =>
       /\ HeaderFirstAndOnce(cpu, CpuHeader)
       /\ HeaderFirstAndOnce(mem, MemHeader)
       /\ HeaderFirstAndOnce(fan, FanHeader)

C3_Witness ==
  /\ run = 1
  /\ pc = "sleep"
  /\ ticks = 2
  /\ DataRows(cpu) = 2
  /\ DataRows(mem) = 2
  /\ DataRows(fan) >= 1

\* C4: a stop signal does not interrupt an iteration in flight: whenever
\* the sampler has exited on a stop signal, every iteration it started has
\* written its CPU row and its memory row and has finished its fan step.
C4_StopOnlyBetweenTicks ==
  pc = "stopped" =>
    /\ DataRows(cpu) = ticks
    /\ DataRows(mem) = ticks
    /\ fanDone = ticks

\* C5: after one stop signal delivered at any point of an iteration or of
\* the sleep, the loop does not go on: no further iteration starts in that
\* run.
C5_NoTickAfterSignal ==
  [][(signals >= 1 /\ sigAt \in LoopPositions /\ run' = run)
       => ticks' = ticks]_vars

\* C6: a stop signal that arrives during the sleep appends exactly one INFO
\* "Monitoring stopped" entry to the log and ends the run; after that the
\* run writes nothing: no row in any sink, no log entry.
C6_StopInSleep ==
  [][/\ (pc = "sleep" /\ signals' = signals + 1) =>
          /\ log' = Append(log, [time |-> Strftime(now), level |-> "INFO",
                                 message |-> <<"Monitoring stopped">>])
          /\ pc' = "stopped"
          /\ UNCHANGED <<cpu, mem, fan>>
     /\ pc = "stopped" => UNCHANGED <<cpu, mem, fan, log>>]_vars

C6_Witness ==
  /\ pc = "stopped"
  /\ sigAt = "sleep"
  /\ ticks = 2
  /\ log # <<>>
  /\ log[Len(log)].level = "INFO"

\* C7: in an iteration whose fan capture fails (tool missing, non-zero
\* exit, parse error) the fan sink is left unchanged, exactly one WARNING
\* entry is logged, and the loop goes on to the sleep.
C7_FanFailureSkipsRow ==
  [][(pc = "fan" /\ lastFan'.kind \in {"missing", "nonzero", "ok"}
        /\ ~(lastFan'.kind = "ok" /\ FanParseOk(lastFan'.out)))
       => /\ fan' = fan
          /\ Len(log') = Len(log) + 1
          /\ SubSeq(log', 1, Len(log)) = log
          /\ log'[Len(log')].level = "WARNING"
          /\ pc' = "sleep"]_vars

\* The second iteration of a run is under way after a first one whose fan
\* capture failed: no fan row, one WARNING, no signal.
C7_Witness ==
  /\ run = 1
  /\ pc = "fan"
  /\ ticks = 2
  /\ signals = 0
  /\ DataRows(fan) = 0
  /\ DataRows(cpu) = 2
  /\ Len(log) = 1
  /\ log[1].level = "WARNING"

\* C8: in every reachable state every line of a sink is a fully formed
\* row: as many fields as the header of the sink, and a line end.
C8_RowsWellFormed ==
  /\ ~cpu.open /\ \A i \in 1..Len(cpu.lines) :
                    Len(cpu.lines[i]) = Len(CpuHeader)
  /\ ~mem.open /\ \A i \in 1..Len(mem.lines) :
                    Len(mem.lines[i]) = Len(MemHeader)
  /\ ~fan.open /\ \A i \in 1..Len(fan.lines) :
                    Len(fan.lines[i]) = Len(FanHeader)

\* C9: check_disk_health returns true exactly when the tool exits with
\* status zero; a non-zero exit returns false and appends exactly one ERROR
\* entry "Failed to get health status for {device}"; a zero exit logs no
\* ERROR entry.
C9_HealthIsExitStatus ==
  [][(calls' = calls + 1 /\ call'.op = "check_disk_health") =>
       LET zero == call'.result.kind = "exit" /\ call'.result.status = 0
           nonzero == call'.result.kind = "exit" /\ call'.result.status # 0
       IN /\ (call'.ret = [kind |-> "bool", val |-> TRUE]) <=> zero
          /\ nonzero =>
               /\ call'.ret = [kind |-> "bool", val |-> FALSE]
               /\ ErrorCount(log') = ErrorCount(log) + 1
               /\ log'[Len(log')].level = "ERROR"
               /\ log'[Len(log')].message =
                    <<"Failed to get health status for ">> \o call'.device
          /\ zero => ErrorCount(log') = ErrorCount(log)]_vars

C9_Witness ==
  /\ call.op = "check_disk_health"
  /\ call.result.kind = "exit"
  /\ call.result.status = 1
  /\ call.ret = [kind |-> "bool", val |-> FALSE]
  /\ ErrorCount(log) = 1

\* C10: check_disk_health invokes exactly one tool, once: the NVMe
\* smart-log tool when the token nvme occurs anywhere in the path, the
\* SMART health tool otherwise, whether or not the device exists.
C10_Dispatch ==
  call.op = "check_disk_health" =>
    /\ Len(call.invoked) = 1
    /\ call.invoked[1] =
         IF \E i \in 1..Len(call.device) : call.device[i] = "nvme"
         THEN "nvme smart-log" ELSE "smartctl -H"

C10_Witness ==
  /\ call.op = "check_disk_health"
  /\ world.path = "absent"
  /\ call.device = MntNvme
  /\ call.invoked = <<"nvme smart-log">>

\* A call of get_disk_info on a block special file with no fault of the
\* size or mount-table read: the case in which the model resolution runs.
DiskInfoReached ==
  /\ call.op = "get_disk_info"
  /\ world.path = "block"
  /\ world.fault = "none"

NvmePath(device) == StartsWith(device, <<"/", "dev", "/", "nvme">>)

\* The three ways the ATA identify invocation can fail that the claim lists.
AtaIdentifyFailed(hd) ==
  \/ hd.kind = "missing"
  \/ hd.kind = "nonzero"
  \/ hd.kind = "ok" /\ \A i \in 1..Len(hd.out) : ~HasModelMarker(hd.out[i])

\* The text that follows the first colon of the first line of out whose
\* first word is in words, stripped.
FieldOfFirstLine(out, words) ==
  LET i == CHOOSE k \in 1..Len(out) :
             /\ out[k] # <<>> /\ out[k][1] \in words
             /\ \A j \in 1..(k - 1) : out[j] = <<>> \/ out[j][1] \notin words
      c == FirstIndex(out[i], ":")
  IN Strip(SubSeq(out[i], c + 1, Len(out[i])))

\* C11: when the ATA identify invocation fails in one of the three ways
\* (tool absent, non-zero exit, output without a Model Number line) and the
\* path is an NVMe path, get_disk_info invokes the NVMe identify tool and
\* returns a record whose model is taken from that tool's mn line.
C11_NvmeFallback ==
  (DiskInfoReached /\ NvmePath(call.device) /\ AtaIdentifyFailed(world.hdparm))
  => /\ call.ret.kind = "info"
     /\ \E i \in 1..Len(call.invoked) : call.invoked[i] = "nvme id-ctrl"
     /\ (world.nvme.kind = "ok" /\ world.nvme.out \in NvmeOutputs
         /\ \E i \in 1..Len(world.nvme.out) :
              /\ IsMnLine(world.nvme.out[i])
              /\ FirstIndex(world.nvme.out[i], ":") # 0)
        => call.ret.model = FieldOfFirstLine(world.nvme.out, MnWords)

\* The text that follows the first Model Number: marker of the line.
AfterModelMarker(line) ==
  LET i == CHOOSE k \in 1..Len(line) :
             /\ k + Len(ModelMarker) - 1 <= Len(line)
             /\ SubSeq(line, k, k + Len(ModelMarker) - 1) = ModelMarker
             /\ \A j \in 1..(k - 1) :
                  SubSeq(line, j, j + Len(ModelMarker) - 1) # ModelMarker
  IN Strip(SubSeq(line, i + Len(ModelMarker), Len(line)))

\* C12: when the ATA identify tool succeeds with a Model Number line,
\* get_disk_info returns a record whose model is the trailing field of the
\* first such line, and the NVMe identify tool is not invoked, also for an
\* NVMe path whose NVMe tool would succeed.
C12_AtaModelWins ==
  (DiskInfoReached /\ world.hdparm.kind = "ok"
   /\ ~AtaIdentifyFailed(world.hdparm))
  => /\ call.ret.kind = "info"
     /\ call.ret.model
          = AfterModelMarker(world.hdparm.out[FirstModelLine(world.hdparm.out)])
     /\ call.invoked = <<"hdparm">>

\* C13: the mounted field of the record get_disk_info returns is true
\* exactly when the device path occurs as a substring of at least one line
\* of the mount table; /dev/sda against a table whose only line is for
\* /dev/sda1 gives mounted = true.
C13_MountedIsSubstring ==
  DiskInfoReached
  => /\ call.ret.kind = "info"
     /\ call.ret.mounted
          = (\E i \in 1..Len(world.mounts) :
               \E k \in 1..Len(world.mounts[i]) :
                 /\ k + Len(call.device) - 1 <= Len(world.mounts[i])
                 /\ SubSeq(world.mounts[i], k, k + Len(call.device) - 1)
                      = call.device)
     /\ (call.device = DevSda /\ world.mounts = <<LineSda1>>)
        => call.ret.mounted = TRUE

\* C14: whenever the sampler is at the sleep that ends an iteration, the
\* CPU sink and the memory sink each hold one data row per iteration started
\* in this run, and the fan sink holds one data row per iteration whose fan
\* capture succeeded.
C14_RowsPerTick ==
  pc = "sleep"
  => /\ DataRows(cpu) = ticks
     /\ DataRows(mem) = ticks
     /\ DataRows(fan) = fanOk

\* C15: a step that leaves the CPU or the memory position without its row
\* and without a stop signal is a capture fault; it ends the loop, it writes
\* nothing to a sink or to the log, and for the rest of the run no iteration
\* starts and no sink changes.
C15_CaptureFaultEndsLoop ==
  [][ /\ (/\ pc \in {"cpu", "mem"} /\ pc' # pc
          /\ signals' = signals /\ cpu' = cpu /\ mem' = mem)
         => (pc' = "crashed" /\ UNCHANGED <<ticks, cpu, mem, fan, log>>)
      /\ (pc = "crashed" /\ run' = run)
         => UNCHANGED <<pc, ticks, cpu, mem, fan>> ]_vars

\* The memory capture of the second iteration has faulted: the CPU row of
\* that iteration is the last row of the run.
C15_Witness ==
  /\ pc = "crashed"
  /\ ticks = 2
  /\ DataRows(cpu) = 2
  /\ DataRows(mem) = 1
  /\ DataRows(fan) <= 1

IsPrefix(s, t) == Len(s) <= Len(t) /\ SubSeq(t, 1, Len(s)) = s

LogCalls ==
  IF calls' # calls
  THEN IF call'.op = "check_disk_health"
       THEN IF call'.ret = Bool(FALSE) THEN 2 ELSE 1
       ELSE 0
  ELSE IF pc = "fan" /\ pc' = "sleep" /\ fanOk' = fanOk THEN 1
       ELSE IF pc # "stopped" /\ pc' = "stopped" THEN 1
            ELSE 0

IsStamp(s) == \E n \in 0..(Len(TimeStrings) - 1) : Strftime(n) = s

\* The clock reading that strftime turned into s.
StampTime(s) == CHOOSE n \in 0..(Len(TimeStrings) - 1) : Strftime(n) = s

\* The data rows of a sink carry timestamps, and from each row to the next
\* the timestamp does not decrease.
StampsNonDecreasing(f) ==
  \A i \in 2..(Len(f.lines) - 1) :
    /\ f.lines[i] # <<>> /\ IsStamp(f.lines[i][1])
    /\ f.lines[i + 1] # <<>> /\ IsStamp(f.lines[i + 1][1])
    /\ StampTime(f.lines[i][1]) <= StampTime(f.lines[i + 1][1])

\* C18: within one run of the sampler with an interval >= 0, the timestamps
\* of consecutive data rows of each CSV sink are non-decreasing.
C18_StampsNonDecreasing ==
  (HeadersWritten /\ interval >= 0)
  => /\ StampsNonDecreasing(cpu)
     /\ StampsNonDecreasing(mem)
     /\ StampsNonDecreasing(fan)

\* Number of lines of a sink that are not its header.
RowCount(f, header) ==
  Cardinality({i \in 1..Len(f.lines) : f.lines[i] # header})

RowOrder ==
  LET c == RowCount(cpu, CpuHeader)
      m == RowCount(mem, MemHeader)
      f == RowCount(fan, FanHeader)
  IN f <= m /\ m <= c /\ c <= m + 1

\* C19 as stated: in every state of a sampler run, from its start on, also
\* after a fault or a stop signal, fan rows <= memory rows <= CPU rows <=
\* memory rows + 1.
C19_RowOrderInEveryState == pc # "idle" => RowOrder

\* C19: in every state of a sampler run in which the three headers of the
\* run have been written, also within an iteration and after a fault or a
\* stop signal, fan rows <= memory rows <= CPU rows <= memory rows + 1.
C19_RowOrderInLoop == HeadersWritten => RowOrder

\* Within the second iteration, after the CPU row and before the memory row.
C19_Witness ==
  /\ pc = "mem"
  /\ ticks = 2
  /\ RowCount(cpu, CpuHeader) = 2
  /\ RowCount(mem, MemHeader) = 1
  /\ RowCount(fan, FanHeader) = 1

LastLine(f) == f.lines[Len(f.lines)]

\* The text that a step appends to the fan sink starts with the text t: on
\* a new line, or glued to the last field of a line left without line end.
FanTextStartsWith(t) ==
  IF fan.open
  THEN LET n == Len(fan.lines)
           k == Len(fan.lines[n])
       IN fan'.lines[n][k] = fan.lines[n][k] \o t
  ELSE fan'.lines[Len(fan.lines) + 1][1] = t

\* C20: the timestamp of an iteration is captured once, at its start, and
\* does not change while the iteration runs, whatever time passes; the CPU
\* row, the memory row and the fan row (or the written part of it) of the
\* iteration all carry that value.
C20_OneStampPerTick ==
  [][ /\ pc \in {"cpu", "mem", "fan"} => ts' = ts
      /\ (pc = "tick" /\ pc' = "cpu") => ts' = Strftime(now)
      /\ (pc = "cpu" /\ cpu' # cpu) => LastLine(cpu')[1] = ts
      /\ (pc = "mem" /\ mem' # mem)
         => LastLine(mem')[1] = ts /\ LastLine(cpu)[1] = ts
      /\ (pc = "fan" /\ fan' # fan)
         => /\ FanTextStartsWith(ts)
            /\ LastLine(mem)[1] = ts
            /\ LastLine(cpu)[1] = ts ]_vars

\* The clock has advanced within the first iteration: its three rows carry
\* the reading taken at the start, not the one at the fan step.
C20_Witness ==
  /\ pc = "sleep"
  /\ ticks = 1
  /\ now = 1
  /\ ts = Strftime(0)
  /\ lastFan.kind = "ok"
  /\ ~fan.open
  /\ Len(fan.lines) = 2
  /\ LastLine(cpu)[1] = Strftime(0)
  /\ LastLine(mem)[1] = Strftime(0)
  /\ LastLine(fan)[1] = Strftime(0)

====
